---------------------------- MODULE Spec2Model ----------------------------
(***************************************************************************)
(* DeltaSymbol.py: the class DeltaSymbol (a sympy Symbol that prints as    *)
(* Delta{X}), its scope lookup _get_ipython_globals, explicit(), and the   *)
(* factory mkdelta with the aliases DeltaSym and DSym.                     *)
(*                                                                         *)
(* Python values are records tagged by "kind"; a module's global table (a  *)
(* dict) is a function whose DOMAIN is the set of bound names; a calling    *)
(* chain is the sequence of frames from inspect.currentframe() outward,    *)
(* each frame given by the module whose global table is its f_globals.     *)
(***************************************************************************)
EXTENDS Integers, Sequences, FiniteSets

\* ------------------------------------------------------------------ bounds
\* Longest calling chain the scope lookup is applied to on its own.
MaxFrames == 3
\* Numbers substituted for X_f and X_i are drawn from 0..MaxNum.
MaxNum == 2

\* ------------------------------------------------------------------ inputs
TextNames == {"DG", "DH"}
BaseNames == {"G", "H"}
\* Assumption flags forwarded to Symbol: none, or real=True.
NoFlags == {}
Assumptions == {NoFlags, {"real"}}

\* ------------------------------------------------------------------ values
IPyDoc == "Automatically created module for IPython interactive environment"
\* The text of the error raised when no frame matches (the source quotes
\* __main__ in backquotes, which a string here cannot hold).
NoSessionMsg == "Unable to find __main__ of interactive session. Are you running in Jupyter or IPython?"

Str(s) == [kind |-> "str", s |-> s]
None == [kind |-> "None"]
IntVal(n) == [kind |-> "int", v |-> n]
\* sympy.Symbol(name): a plain symbol without assumption flags.
Symbol(name) == [kind |-> "Symbol", name |-> name, assum |-> {}]
\* The result of left - right on two symbols.
Sub(left, right) == [kind |-> "Sub", left |-> left, right |-> right]
AttributeError(msg) == [kind |-> "AttributeError", msg |-> msg]
\* A local variable that no statement has assigned yet.
Unbound == [kind |-> "unbound"]
\* A class attribute that no statement has set yet.
Unset == "<unset>"

\* ------------------------------------------------------------------- dicts
\* d[k] = v on a dict.
SetItem(d, k, v) == [n \in (DOMAIN d) \cup {k} |-> IF n = k THEN v ELSE d[n]]
EmptyDict == [n \in {} |-> None]
ModuleDict(name, doc) == [n \in {"__name__", "__doc__"} |-> IF n = "__name__" THEN name ELSE doc]

\* ------------------------------------------------------------ scope lookup
\* As ReadFrame, but with an except clause that does not reset namestr: a
\* frame without '__doc__' keeps its own name and the previous frame's doc.
ReadFrameStale(d, docstr) ==
    IF "__name__" \notin DOMAIN d THEN [namestr |-> Str(""), docstr |-> docstr]
    ELSE IF "__doc__" \notin DOMAIN d THEN [namestr |-> d["__name__"], docstr |-> docstr]
    ELSE [namestr |-> d["__name__"], docstr |-> d["__doc__"]]

\* The try/except KeyError that reads one frame's globals: a missing
\* '__name__' or '__doc__' leaves namestr = '' and docstr as it was.
ReadFrame(d, docstr) ==
    IF "__name__" \notin DOMAIN d THEN [namestr |-> Str(""), docstr |-> docstr]
    ELSE IF "__doc__" \notin DOMAIN d THEN [namestr |-> Str(""), docstr |-> docstr]
    ELSE [namestr |-> d["__name__"], docstr |-> d["__doc__"]]

\* The test that clears is_not_ipython_global.
IsIPythonGlobal(r) == r.namestr = Str("__main__") /\ r.docstr = Str(IPyDoc)

\* The while loop: frame i has been read and did not match; step to
\* frame.f_back. Past the outermost frame, frame is None and frame.f_globals
\* raises the AttributeError that the outer handler re-raises: result 0.
RECURSIVE WalkBack(_, _, _)
WalkBack(frames, i, docstr) ==
    IF i + 1 > Len(frames) THEN 0
    ELSE LET r == ReadFrame(frames[i + 1], docstr)
         IN  IF IsIPythonGlobal(r) THEN i + 1 ELSE WalkBack(frames, i + 1, r.docstr)

\* As GetIpythonGlobals, but falling back to the outermost frame's table
\* where the source raises.
GetIpythonGlobalsOutermost(frames) ==
    LET r == ReadFrame(frames[1], Unbound)
        k == IF IsIPythonGlobal(r) THEN 1 ELSE WalkBack(frames, 1, r.docstr)
    IN  IF k = 0 THEN Len(frames) ELSE k

\* _get_ipython_globals on the calling chain frames (frames[1] is the frame
\* of _get_ipython_globals itself). The result is the index of the frame
\* whose f_globals is returned, or 0 when the call raises AttributeError.
GetIpythonGlobals(frames) ==
    LET r == ReadFrame(frames[1], Unbound)
    IN  IF IsIPythonGlobal(r) THEN 1 ELSE WalkBack(frames, 1, r.docstr)

\* ------------------------------------------------------------------- state
\* The module global tables that frames of a calling chain can have:
\*   DeltaSymbol  the module of DeltaSymbol.py (no module docstring)
\*   ipy          the user namespace of the interactive session
\*   script       the __main__ of a plain (non-interactive) python run
\*   lib          a library module between the session and the call
ModuleIds == {"DeltaSymbol", "ipy", "script", "lib"}
\* Names the session may already bind, to an unrelated value, before any call.
PreNames == {"G_i", "G_f", "DG"}
OldValue == IntVal(7)

VARIABLES
    globals,      \* module id -> that module's global table (a dict)
    cls_name,     \* the class attribute DeltaSymbol.name
    cls_basestr,  \* the class attribute DeltaSymbol.basestr
    quantities,   \* the delta quantities the caller holds: each the object a
                  \* construction returned, with that construction's arguments
    last,         \* the last call: its arguments, what it located and returned
    first,        \* held quantity -> what its first successful explicit()
                  \* returned and the table it wrote to (kept only in the
                  \* sessions of SpecRepeat)
    stack,        \* a calling chain handed to the scope lookup on its own
    found         \* the result of that lookup (-1: not yet called)

vars == <<globals, cls_name, cls_basestr, quantities, last, first, stack, found>>

\* The sequences over S of length at most n.
RECURSIVE SeqsUpTo(_, _)
SeqsUpTo(S, n) ==
    IF n = 0 THEN {<<>>}
    ELSE LET shorter == SeqsUpTo(S, n - 1)
         IN  shorter \cup {<<x>> \o s : x \in S, s \in {t \in shorter : Len(t) = n - 1}}
\* The caller frames of a call, innermost first: typed at the session's
\* prompt, reached from the session through a library, run in a plain
\* script, reached from a script through a library.
CallerChains == {<<"ipy">>, <<"lib", "ipy">>, <<"script">>, <<"lib", "script">>}

\* The frames (their global tables) of a chain of module ids.
Frames(g, chain) == [i \in 1..Len(chain) |-> g[chain[i]]]

\* ------------------------------------------------------------ DeltaSymbol
\* As DeltaSymbolNew, but handing the base name to Symbol's constructor.
DeltaSymbolNewByBase(textname, deltaof, assum) ==
    [name    |-> textname,
     basestr |-> deltaof,
     obj     |-> [kind |-> "DeltaSymbol", name |-> deltaof, assum |-> assum]]

\* DeltaSymbol.__new__: sets the two attributes on the class and returns
\* the Symbol built from textname and the assumptions.
DeltaSymbolNew(textname, deltaof, assum) ==
    [name    |-> textname,
     basestr |-> deltaof,
     obj     |-> [kind |-> "DeltaSymbol", name |-> textname, assum |-> assum]]

\* Attribute reads on an instance q: name is the instance's own (set by
\* Symbol's constructor), basestr is found on the class.
NameOf(q) == q.name
BaseStrOf(q) == cls_basestr

ReprLatex(q) == "$\\Delta{" \o BaseStrOf(q) \o "}$"
Latex(q) == "\\Delta{" \o BaseStrOf(q) \o "}"
StrOf(q) == NameOf(q)
ReprOf(q) == StrOf(q)

\* The engine's equality of two symbols: same class, name and assumptions.
SymEq(a, b) == a.kind = b.kind /\ a.name = b.name /\ a.assum = b.assum

\* expr.subs(env) for the expressions explicit() returns: a number once
\* both symbols are substituted, the expression itself otherwise.
Subs(expr, env) ==
    IF expr.kind = "Sub" /\ expr.left \in DOMAIN env /\ expr.right \in DOMAIN env
    THEN IntVal(env[expr.left] - env[expr.right])
    ELSE expr

\* explicit() with the class attribute basestr, called through chain on the
\* tables g: the tables afterwards, the table located and the result.
ExplicitCall(g, chain, basestr) ==
    LET initstr == basestr \o "_i"
        finalstr == basestr \o "_f"
        k == GetIpythonGlobals(Frames(g, chain))
    IN  IF k = 0
        THEN [globals |-> g, scope |-> "none", ret |-> AttributeError(NoSessionMsg)]
        ELSE LET m == chain[k]
                 g1 == [g EXCEPT ![m] = SetItem(@, finalstr, Symbol(finalstr))]
                 g2 == [g1 EXCEPT ![m] = SetItem(@, initstr, Symbol(initstr))]
             IN  [globals |-> g2, scope |-> m,
                  ret |-> Sub(g2[m][finalstr], g2[m][initstr])]

\* As MkdeltaCall, but binding textname only where it is not bound yet.
MkdeltaCallKeepsOld(g, chain, textname, deltaof, assum) ==
    LET tmpcls == DeltaSymbolNew(textname, deltaof, assum)
        k == GetIpythonGlobals(Frames(g, chain))
    IN  IF k = 0
        THEN [globals |-> g, scope |-> "none", ret |-> AttributeError(NoSessionMsg),
              name |-> tmpcls.name, basestr |-> tmpcls.basestr]
        ELSE LET m == chain[k]
                 new == DeltaSymbolNew(textname, deltaof, assum)
                 g1 == IF textname \in DOMAIN g[m] THEN g
                       ELSE [g EXCEPT ![m] = SetItem(@, textname, new.obj)]
             IN  [globals |-> g1, scope |-> m, ret |-> g1[m][textname],
                  name |-> new.name, basestr |-> new.basestr]

\* mkdelta(textname, deltaof, **assum) called through chain on the tables g.
\* tmpcls is constructed (and sets the class attributes) before the lookup.
MkdeltaCall(g, chain, textname, deltaof, assum) ==
    LET tmpcls == DeltaSymbolNew(textname, deltaof, assum)
        k == GetIpythonGlobals(Frames(g, chain))
    IN  IF k = 0
        THEN [globals |-> g, scope |-> "none", ret |-> AttributeError(NoSessionMsg),
              name |-> tmpcls.name, basestr |-> tmpcls.basestr]
        ELSE LET m == chain[k]
                 new == DeltaSymbolNew(textname, deltaof, assum)
                 g1 == [g EXCEPT ![m] = SetItem(@, textname, new.obj)]
             IN  [globals |-> g1, scope |-> m, ret |-> g1[m][textname],
                  name |-> new.name, basestr |-> new.basestr]

\* Whether some frame of a chain is the interactive top level.
IsTopLevel(d) ==
    /\ "__name__" \in DOMAIN d /\ d["__name__"] = Str("__main__")
    /\ "__doc__" \in DOMAIN d /\ d["__doc__"] = Str(IPyDoc)
SessionIn(g, chain) == \E i \in 1..Len(chain) : IsTopLevel(g[chain[i]])

\* ----------------------------------------------------------------- actions
Init ==
    /\ \E pre \in {{}, PreNames} :
         globals = [m \in ModuleIds |->
            CASE m = "DeltaSymbol" -> ModuleDict(Str("DeltaSymbol"), None)
              [] m = "ipy" -> [n \in {"__name__", "__doc__"} \cup pre |->
                                 IF n = "__name__" THEN Str("__main__")
                                 ELSE IF n = "__doc__" THEN Str(IPyDoc)
                                 ELSE OldValue]
              [] m = "script" -> ModuleDict(Str("__main__"), None)
              [] OTHER -> ModuleDict(Str("lib"), Str("A library module."))]
    /\ cls_name = Unset
    /\ cls_basestr = Unset
    /\ quantities = {}
    /\ first = [h \in {} |-> None]
    /\ last = [op |-> "none", name |-> "", deltaof |-> "", assum |-> {},
               session |-> FALSE, scope |-> "none", ret |-> None]
    /\ stack = <<>>
    /\ found = -1

\* The caller's record of a quantity it was handed.
Held(obj, textname, deltaof, assum) ==
    [obj |-> obj, textname |-> textname, deltaof |-> deltaof, assum |-> assum]

\* DeltaSymbol(textname, deltaof, **assum) called from the frames callers.
\* DeltaSym and DSym are the same class object, so a call through either
\* name is this call.
New(textname, deltaof, assum, callers) ==
    LET new == DeltaSymbolNew(textname, deltaof, assum)
    IN  /\ cls_name' = new.name
        /\ cls_basestr' = new.basestr
        /\ quantities' = quantities \cup {Held(new.obj, textname, deltaof, assum)}
        /\ last' = [op |-> "DeltaSymbol", name |-> textname, deltaof |-> deltaof, assum |-> assum,
                    session |-> SessionIn(globals, callers), scope |-> "none",
                    ret |-> new.obj]
        /\ UNCHANGED <<globals, first, stack, found>>

\* h.obj.explicit() on a quantity the caller holds, called from the frames
\* callers.
ExplicitStep(h, callers) ==
    LET chain == <<"DeltaSymbol", "DeltaSymbol">> \o callers
        r == ExplicitCall(globals, chain, BaseStrOf(h.obj))
    IN  /\ globals' = r.globals
        /\ last' = [op |-> "explicit", name |-> h.textname, deltaof |-> h.deltaof,
                    assum |-> h.assum, session |-> SessionIn(globals, callers),
                    scope |-> r.scope, ret |-> r.ret]
        /\ UNCHANGED <<cls_name, cls_basestr, quantities, stack, found>>

Explicit(h, callers) == ExplicitStep(h, callers) /\ UNCHANGED first

\* The same call in a session that remembers each quantity's first result.
ExplicitLogged(h, callers) ==
    /\ ExplicitStep(h, callers)
    /\ first' = IF last'.scope = "none" \/ h \in DOMAIN first THEN first
                ELSE SetItem(first, h, [ret |-> last'.ret, scope |-> last'.scope])

\* mkdelta(textname, deltaof, **assum) called from the frames callers.
Mkdelta(textname, deltaof, assum, callers) ==
    LET chain == <<"DeltaSymbol", "DeltaSymbol">> \o callers
        r == MkdeltaCall(globals, chain, textname, deltaof, assum)
    IN  /\ globals' = r.globals
        /\ cls_name' = r.name
        /\ cls_basestr' = r.basestr
        /\ quantities' = IF r.scope = "none" THEN quantities
                         ELSE quantities \cup {Held(r.ret, textname, deltaof, assum)}
        /\ last' = [op |-> "mkdelta", name |-> textname, deltaof |-> deltaof,
                    assum |-> assum, session |-> SessionIn(globals, callers),
                    scope |-> r.scope, ret |-> r.ret]
        /\ UNCHANGED <<first, stack, found>>

\* A session of calls made without assumption flags.
Next ==
    \/ \E t \in TextNames, d \in BaseNames, c \in CallerChains : New(t, d, NoFlags, c)
    \/ \E h \in quantities, c \in CallerChains : Explicit(h, c)
    \/ \E t \in TextNames, d \in BaseNames, c \in CallerChains : Mkdelta(t, d, NoFlags, c)

Spec == Init /\ [][Next]_vars

\* Constructions with and without assumption flags.
NextFlags ==
    \E t \in TextNames, d \in BaseNames, a \in Assumptions, c \in CallerChains :
       New(t, d, a, c)

SpecFlags == Init /\ [][NextFlags]_vars

\* Direct constructions and explicit() calls, each quantity's first
\* explicit() result remembered.
NextRepeat ==
    \/ \E t \in TextNames, d \in BaseNames, c \in CallerChains : New(t, d, NoFlags, c)
    \/ \E h \in quantities, c \in CallerChains : ExplicitLogged(h, c)

SpecRepeat == Init /\ [][NextRepeat]_vars

\* ------------------------------------------------- the scope lookup alone
\* Global tables a frame can have: '__name__' missing, '__main__' or a
\* library's; '__doc__' missing, the IPython docstring or None.
FrameDicts ==
    {[n \in (IF nm = Unbound THEN {} ELSE {"__name__"}) \cup
             (IF dc = Unbound THEN {} ELSE {"__doc__"}) |->
         IF n = "__name__" THEN nm ELSE dc] :
       nm \in {Unbound, Str("__main__"), Str("lib")},
       dc \in {Unbound, Str(IPyDoc), None}}

Stacks == SeqsUpTo(FrameDicts, MaxFrames) \ {<<>>}

InitLookup ==
    /\ Init!1 /\ Init!2 /\ Init!3 /\ Init!4 /\ Init!5 /\ Init!6
    /\ stack \in Stacks
    /\ found = -1

\* _get_ipython_globals called with the calling chain stack.
Lookup ==
    /\ found = -1
    /\ found' = GetIpythonGlobals(stack)
    /\ UNCHANGED <<globals, cls_name, cls_basestr, quantities, last, first, stack>>

SpecLookup == InitLookup /\ [][Lookup]_vars

\* ================================================================== claims
\* The typeset form the specification gives a base name, and the same in
\* math delimiters.
Typeset(base) == "\\Delta{" \o base \o "}"
InMath(tex) == "$" \o tex \o "$"

\* The held quantity the last call was made on, or returned.
LastHeld ==
    Held([kind |-> "DeltaSymbol", name |-> last.name, assum |-> last.assum],
         last.name, last.deltaof, last.assum)

\* A held quantity that is an object of its own: no other construction has
\* returned the same symbol under another base name. The claims about what
\* a quantity keeps are stated for these, so that building the same symbol
\* again is not what decides them.
Sole(h) == \A k \in quantities : SymEq(k.obj, h.obj) => k = h

\* ------------------------------------------------------------------- C9
TopLevelFrames == {i \in 1..Len(stack) : IsTopLevel(stack[i])}

\* C9: for every calling chain the lookup ends, returning the table of the
\* innermost frame whose '__name__' is '__main__' and whose '__doc__' is the
\* IPython docstring, or raising when no frame has both; a frame that lacks
\* either entry is never selected.
C9_LookupFindsInnermostTopLevel ==
    found # -1 =>
        IF TopLevelFrames = {} THEN found = 0
        ELSE found \in TopLevelFrames /\ \A j \in TopLevelFrames : found <= j

\* A chain whose second frame is named '__main__' but has no '__doc__',
\* right after a frame whose '__doc__' is the IPython docstring; the lookup
\* passed both and returned the third.
C9_Witness ==
    /\ found = 3
    /\ "__doc__" \in DOMAIN stack[1] /\ stack[1]["__doc__"] = Str(IPyDoc)
    /\ "__name__" \in DOMAIN stack[2] /\ stack[2]["__name__"] = Str("__main__")
    /\ "__doc__" \notin DOMAIN stack[2]

\* ------------------------------------------------------------------- C4
\* C4: with an interactive top level on the chain, mkdelta(textname, deltaof)
\* leaves textname bound there to a delta quantity whose plain-text name is
\* textname and whose base name is deltaof, whatever textname was bound to
\* before, and returns the object bound there.
C4_MkdeltaBindsAndReturns ==
    (last.op = "mkdelta" /\ last.session) =>
        /\ last.scope # "none"
        /\ IsTopLevel(globals[last.scope])
        /\ last.name \in DOMAIN globals[last.scope]
        /\ globals[last.scope][last.name] = last.ret
        /\ last.ret.kind = "DeltaSymbol"
        /\ StrOf(last.ret) = last.name
        /\ BaseStrOf(last.ret) = last.deltaof
        /\ ReprLatex(last.ret) = InMath(Typeset(last.deltaof))

\* mkdelta('DG', ...) succeeded in a session that had DG bound to an
\* unrelated value from the start (G_i still holds that value).
C4_Witness ==
    /\ last.op = "mkdelta" /\ last.scope = "ipy" /\ last.name = "DG"
    /\ "G_i" \in DOMAIN globals["ipy"] /\ globals["ipy"]["G_i"] = OldValue
    /\ globals["ipy"]["DG"].kind = "DeltaSymbol"

\* ------------------------------------------------------------------- C6
\* C6 as stated: with no interactive top level on the chain, construction
\* through mkdelta or through the class (DeltaSymbol, DeltaSym, DSym) raises
\* the no-session error.
C6_EveryConstructorNeedsSession ==
    (last.op \in {"mkdelta", "DeltaSymbol"} /\ ~last.session) =>
        last.ret = AttributeError(NoSessionMsg)

\* C6 amended: with no interactive top level on the chain, mkdelta raises
\* the no-session error and nothing else; construction through the class
\* (DeltaSymbol, DeltaSym, DSym) looks for no session and returns the new
\* quantity whether or not a session is active.
C6_OnlyMkdeltaNeedsSession ==
    /\ (last.op = "mkdelta" /\ ~last.session) =>
           last.ret = AttributeError(NoSessionMsg)
    /\ last.op = "DeltaSymbol" =>
           /\ last.scope = "none"
           /\ last.ret = [kind |-> "DeltaSymbol", name |-> last.name, assum |-> last.assum]

\* mkdelta was called from a plain script and raised.
C6_Witness ==
    /\ last.op = "mkdelta" /\ ~last.session
    /\ last.ret.kind = "AttributeError"

\* ------------------------------------------------------------------- C7
\* C7 as stated: two delta quantities built from the same base name with the
\* same plain-text name compare equal; two built from different base names
\* compare unequal.
C7_EqualByBaseName ==
    \A p \in quantities, q \in quantities :
        /\ (p.deltaof = q.deltaof /\ p.textname = q.textname) => SymEq(p.obj, q.obj)
        /\ p.deltaof # q.deltaof => ~SymEq(p.obj, q.obj)

\* C7 amended: two delta quantities built with the same plain-text name and
\* the same assumption flags compare equal, whatever their base names; two
\* built with different plain-text names compare unequal.
C7_EqualByTextName ==
    \A p \in quantities, q \in quantities :
        /\ (p.textname = q.textname /\ p.assum = q.assum) => SymEq(p.obj, q.obj)
        /\ p.textname # q.textname => ~SymEq(p.obj, q.obj)

\* Two quantities built under one name from different base names, and a
\* third built under another name.
C7_Witness ==
    \E p \in quantities, q \in quantities, r \in quantities :
        /\ p.textname = q.textname /\ p.assum = q.assum /\ p.deltaof # q.deltaof
        /\ r.textname # p.textname

\* ------------------------------------------------------------------- C1
\* C1: explicit() on a quantity with base name X, an interactive top level
\* being on the chain, returns X_f - X_i (substituting X_f = a and X_i = b
\* gives a - b) and leaves X_i and X_f bound there to plain symbols of
\* those names.
C1_ExplicitExpandsOwnBase ==
    (last.op = "explicit" /\ last.session /\ Sole(LastHeld)) =>
        LET xi == last.deltaof \o "_i"
            xf == last.deltaof \o "_f"
        IN  /\ last.scope # "none"
            /\ last.ret = Sub(Symbol(xf), Symbol(xi))
            /\ \A a \in 0..MaxNum, b \in 0..MaxNum :
                  Subs(last.ret, [y \in {Symbol(xf), Symbol(xi)} |->
                                     IF y = Symbol(xf) THEN a ELSE b]) = IntVal(a - b)
            /\ xi \in DOMAIN globals[last.scope]
            /\ globals[last.scope][xi] = Symbol(xi)
            /\ xf \in DOMAIN globals[last.scope]
            /\ globals[last.scope][xf] = Symbol(xf)

\* ------------------------------------------------------------------- C2
\* C2: every delta quantity built with plain-text name N and base name X
\* renders as N in plain text (str and repr) and as Delta{X} in typeset form
\* (in math delimiters for _repr_latex_, without them for _latex).
C2_RendersOwnNames ==
    \A h \in {k \in quantities : Sole(k)} :
        /\ StrOf(h.obj) = h.textname
        /\ ReprOf(h.obj) = h.textname
        /\ ReprLatex(h.obj) = InMath(Typeset(h.deltaof))
        /\ Latex(h.obj) = Typeset(h.deltaof)

\* ------------------------------------------------------------------- C3
\* C3: no construction (through any name) and no explicit() call changes
\* the base name or a rendering of a delta quantity that already exists.
C3_QuantitiesNeverChange ==
    [][\A h \in {k \in quantities : Sole(k)'} :
          /\ BaseStrOf(h.obj)' = BaseStrOf(h.obj)
          /\ StrOf(h.obj)' = StrOf(h.obj)
          /\ ReprLatex(h.obj)' = ReprLatex(h.obj)
          /\ Latex(h.obj)' = Latex(h.obj)]_vars

\* ------------------------------------------------------------------- C5
\* C5: with no interactive top level on the chain, explicit() and mkdelta()
\* raise the no-session error and change nothing: no binding of any table,
\* and no base name or rendering of a quantity that already exists.
C5_FailedCallChangesNothing ==
    [][(last'.op \in {"explicit", "mkdelta"} /\ ~last'.session) =>
          /\ last'.ret = AttributeError(NoSessionMsg)
          /\ globals' = globals
          /\ \A h \in {k \in quantities : Sole(k) /\ k.textname # last'.name} :
                /\ BaseStrOf(h.obj)' = BaseStrOf(h.obj)
                /\ StrOf(h.obj)' = StrOf(h.obj)
                /\ ReprLatex(h.obj)' = ReprLatex(h.obj)
                /\ Latex(h.obj)' = Latex(h.obj)]_vars

\* ------------------------------------------------------------------- C8
\* C8: a later successful explicit() on a quantity returns what its first
\* one returned and leaves the names the first one bound (X_i and X_f)
\* bound to the same symbols in the same table; with an interactive top
\* level on the chain it never raises.
C8_ExplicitRepeats ==
    (last.op = "explicit" /\ last.session /\ Sole(LastHeld)) =>
        /\ last.ret.kind # "AttributeError"
        /\ LastHeld \in DOMAIN first
        /\ first[LastHeld].scope = last.scope =>
              LET old == first[LastHeld].ret
              IN  /\ last.ret = old
                  /\ old.left.name \in DOMAIN globals[last.scope]
                  /\ globals[last.scope][old.left.name] = old.left
                  /\ old.right.name \in DOMAIN globals[last.scope]
                  /\ globals[last.scope][old.right.name] = old.right

\* ------------------------------------------------------------------ C10
\* The bindings that differ between the tables g and g2: pairs <<m, n>>.
Changed(g, g2) ==
    {mn \in UNION {{<<m, n>> : n \in (DOMAIN g[m]) \cup (DOMAIN g2[m])} : m \in ModuleIds} :
        LET m == mn[1]
            n == mn[2]
        IN  \/ (n \in DOMAIN g[m]) # (n \in DOMAIN g2[m])
            \/ (n \in DOMAIN g[m] /\ n \in DOMAIN g2[m] /\ g[m][n] # g2[m][n])}

\* C10: a successful explicit() on a quantity with base name X changes no
\* binding but X_i and X_f of the table it located, a successful mkdelta
\* changes no binding but textname there, and neither changes a binding of
\* any other table.
C10_OnlyOwnNamesChange ==
    [][/\ (last'.op = "explicit" /\ last'.scope # "none" /\ Sole(LastHeld)') =>
             Changed(globals, globals') \subseteq
                {<<last'.scope, last'.deltaof \o "_i">>, <<last'.scope, last'.deltaof \o "_f">>}
       /\ (last'.op = "mkdelta" /\ last'.scope # "none") =>
             Changed(globals, globals') \subseteq {<<last'.scope, last'.name>>}]_vars

=============================================================================
